---- MODULE Spec2Model ----
(***************************************************************************)
(* Model of gpeopleapiwrapper: the masked model wrapper (base.py) and the  *)
(* person facade, list wrappers, item wrappers, removal criteria and       *)
(* removal strategies (persons.py).                                        *)
(*                                                                         *)
(* A python dict is a function whose DOMAIN is the set of its keys; a      *)
(* python list is a sequence.  Positions in a list are zero-based, as in   *)
(* the code; Nth(lst, i) reads the element at zero-based position i.       *)
(***************************************************************************)
EXTENDS Integers, Sequences, FiniteSets, TLC

\* ----------------------------------------------------------------- bounds
\* Longest list attribute the model lets an append build.
MaxLen == 2

\* Most sub-fields the model lets the pass-through setters give one name item.
MaxNameKeys == 2

\* ------------------------------------------------------------ vocabulary
FIELD_RESOURCE_NAME == "resourceName"
FIELD_VALUE == "value"
FIELD_TYPE == "type"
FIELD_DATE == "date"

\* The values of the PersonField enumeration.
PersonField == {"addresses", "birthdays", "emailAddresses", "events", "names", "phoneNumbers"}

\* Python's None where an object (an item wrapper, a DateValue) is expected.
None == [None |-> TRUE]

\* Python's None where an int is expected: an Optional[int] is <<>> or <<n>>.
NoInt == <<>>

Some(n) == <<n>>

\* ----------------------------------------------------------- python dicts
\* dict.get(key, default)
Get(dict, key, default) == IF key \in DOMAIN dict THEN dict[key] ELSE default

\* dict[key] = value
Put(dict, key, value) == [k \in DOMAIN dict \cup {key} |-> IF k = key THEN value ELSE dict[k]]

\* lst[i] for a zero-based position i
Nth(lst, i) == lst[i + 1]

\* del lst[i] for a zero-based position i < len(lst)
DelNth(lst, i) == SubSeq(lst, 1, i) \o SubSeq(lst, i + 2, Len(lst))

\* ------------------------------------------------------------- DateValue
\* An exception leaving a call that would otherwise give back an object.
Raised(exception) == [raised |-> exception]

\* The year check accepting every year.
check_year_range_unchecked(year) == TRUE

\* DateValue.__check_year_range: does the check let the component pass?
check_year_range(year) == year = NoInt \/ ~(year[1] <= 0)

\* DateValue.__check_month_range
check_month_range(month) == month = NoInt \/ ~(month[1] < 1 \/ month[1] > 12)

\* DateValue.__check_day_range
check_day_range(day) == day = NoInt \/ ~(day[1] < 1 \/ day[1] > 31)

\* DateValue.__init__ stores the three optional components, each after its range
\* check; a component out of range raises ValueError and no object is made.
DateValue(year, month, day) ==
    IF check_year_range(year) /\ check_month_range(month) /\ check_day_range(day)
    THEN [year |-> year, month |-> month, day |-> day]
    ELSE Raised("ValueError")

from_full_date(year, month, day) == DateValue(Some(year), Some(month), Some(day))

from_year_month(year, month) == DateValue(Some(year), Some(month), NoInt)

from_month_day(month, day) == DateValue(NoInt, Some(month), Some(day))

from_year_only(year) == DateValue(Some(year), NoInt, NoInt)

\* "x if x else 0" for an optional component
OrZero(c) == IF c # NoInt /\ c[1] # 0 THEN c[1] ELSE 0

\* DateValue.google_value: the wire form, an absent component is 0.
google_value(dv) == [year |-> OrZero(dv.year), month |-> OrZero(dv.month), day |-> OrZero(dv.day)]

\* from_google taking every component the wire form holds, a 0 too.
FromWire_keeping_zero(google_date, key) ==
    IF key \in DOMAIN google_date THEN Some(google_date[key]) ELSE NoInt

\* One component of from_google: absent key or a value <= 0 is None.
FromWire(google_date, key) ==
    IF key \in DOMAIN google_date /\ google_date[key] > 0 THEN Some(google_date[key]) ELSE NoInt

\* DateValue.from_google
from_google(google_date) ==
    DateValue(FromWire(google_date, "year"), FromWire(google_date, "month"), FromWire(google_date, "day"))

\* __eq__ comparing the years only.
DateEq_by_year(self, other) == other # None /\ self.year = other.year

\* isinstance(object, DateValue)
IsDateValue(object) == DOMAIN object = {"year", "month", "day"}

\* __eq__ without the comparison of the days.
DateEq_without_day(self, other) ==
    /\ other # None
    /\ IsDateValue(other)
    /\ self.year = other.year
    /\ self.month = other.month

\* DateValue.__eq__ (other may be None or an object of another class)
DateEq(self, other) ==
    IF other = None THEN FALSE
    ELSE IF ~IsDateValue(other) THEN FALSE
    ELSE IF self.year = NoInt /\ other.year # NoInt THEN FALSE
    ELSE IF self.year # NoInt /\ other.year = NoInt THEN FALSE
    ELSE IF self.year # other.year THEN FALSE
    ELSE IF self.month = NoInt /\ other.month # NoInt THEN FALSE
    ELSE IF self.month # NoInt /\ other.month = NoInt THEN FALSE
    ELSE IF self.month # other.month THEN FALSE
    ELSE IF self.day = NoInt /\ other.day # NoInt THEN FALSE
    ELSE IF self.day # NoInt /\ other.day = NoInt THEN FALSE
    ELSE IF self.day # other.day THEN FALSE
    ELSE TRUE

\* "if x" for an optional component: None and 0 are false
Truthy(c) == c # NoInt /\ c[1] # 0

\* The number of days datetime.date allows in a month of a year.
DaysInMonth(year, month) ==
    IF month = 2
    THEN (IF year % 4 = 0 /\ (year % 100 # 0 \/ year % 400 = 0) THEN 29 ELSE 28)
    ELSE IF month \in {4, 6, 9, 11} THEN 30 ELSE 31

\* datetime.date(year, month, day): the date, or ValueError for a year outside
\* 1..9999, a month outside 1..12 or a day the month does not have.
date(year, month, day) ==
    IF year \in 1 .. 9999 /\ month \in 1 .. 12 /\ day \in 1 .. DaysInMonth(year, month)
    THEN <<year, month, day>>
    ELSE Raised("ValueError")

\* One call of a visitor method
Call(callback, args) == [callback |-> callback, args |-> args]

\* DateValue.visit_value: the exception it raises or "ok", and the calls the
\* visitor received.  The full-date branch builds a datetime.date first.
visit_value(self) ==
    LET year == self.year  month == self.month  day == self.day IN
    IF Truthy(year) /\ Truthy(month) /\ Truthy(day)
    THEN (IF date(year[1], month[1], day[1]) = Raised("ValueError")
          THEN [raised |-> "ValueError", calls |-> <<>>]
          ELSE [raised |-> "ok", calls |-> <<Call("visit_full_date", date(year[1], month[1], day[1]))>>])
    ELSE IF Truthy(year) /\ Truthy(month)
    THEN [raised |-> "ok", calls |-> <<Call("visit_without_day", <<year[1], month[1]>>)>>]
    ELSE IF Truthy(month) /\ Truthy(day)
    THEN [raised |-> "ok", calls |-> <<Call("visit_without_year", <<month[1], day[1]>>)>>]
    ELSE IF Truthy(year)
    THEN [raised |-> "ok", calls |-> <<Call("visit_year_only", <<year[1]>>)>>]
    ELSE [raised |-> "ok", calls |-> <<>>]

\* DateValue.__hash__
DateHash(self) ==
    IF Truthy(self.day) THEN self.day[1] ELSE IF Truthy(self.year) THEN self.year[1] ELSE 0

\* ----------------------------------------------------- item wrapper mixins
\* StringValueMixin.value (getter)
value(item) == Get(item, FIELD_VALUE, "")

\* TypeMixin.vtype (getter)
vtype(item) == Get(item, FIELD_TYPE, "")

\* DateValueMixin.date_value (getter): None when the key is missing or its dict is empty
date_value(item) ==
    IF FIELD_DATE \in DOMAIN item /\ DOMAIN item[FIELD_DATE] # {}
    THEN from_google(item[FIELD_DATE])
    ELSE None

\* NameWrapper.display_name
display_name(item) == Get(item, "displayName", "")

\* ------------------------------------------------------ removal criteria
\* The parameter objects handed to BaseListWrapper._remove.
RemoveAllCriterion == [kind |-> "RemoveAllCriterion"]

RemoveByStringValueCriterion(string_value) == [kind |-> "RemoveByStringValueCriterion", string_value |-> string_value]

RemoveByTypeCriterion(t) == [kind |-> "RemoveByTypeCriterion", vtype |-> t]

RemoveByDateValueCriterion(dv) == [kind |-> "RemoveByDateValueCriterion", date_value |-> dv]

\* wrapper.date_value == self.__date_value: a None on the left is decided by the
\* reflected DateValue.__eq__(None).
DateCriterionEq(left, right) == IF left = None THEN DateEq(right, None) ELSE DateEq(left, right)

\* RemoveCriterion.suggest_removal of the four criteria
suggest_removal(criterion, item) ==
    CASE criterion.kind = "RemoveAllCriterion" -> TRUE
      [] criterion.kind = "RemoveByStringValueCriterion" -> value(item) = criterion.string_value
      [] criterion.kind = "RemoveByTypeCriterion" -> vtype(item) = criterion.vtype
      [] criterion.kind = "RemoveByDateValueCriterion" -> DateCriterionEq(date_value(item), criterion.date_value)

\* ------------------------------------------------------ removal strategies
RemoveStrategies == {"RemoveAllSuggested", "RemoveFirstSuggested", "RemoveSuggestedExceptFirst"}

\* RemoveAllSuggested.remove_from
RemoveAllSuggested(remove_suggestion) ==
    IF Len(remove_suggestion) > 0 THEN remove_suggestion ELSE <<>>

\* remove_suggestion[-1:]: the last suggested position instead of the first.
RemoveLastSuggested(remove_suggestion) ==
    IF Len(remove_suggestion) >= 1
    THEN SubSeq(remove_suggestion, Len(remove_suggestion), Len(remove_suggestion))
    ELSE <<>>

\* RemoveFirstSuggested.remove_from: remove_suggestion[0:1]
RemoveFirstSuggested(remove_suggestion) ==
    IF Len(remove_suggestion) >= 1 THEN SubSeq(remove_suggestion, 1, 1) ELSE <<>>

\* remove_suggestion[:-1]: all suggested positions except the last.
RemoveSuggestedExceptLast(remove_suggestion) ==
    IF Len(remove_suggestion) >= 1 THEN SubSeq(remove_suggestion, 1, Len(remove_suggestion) - 1) ELSE <<>>

\* RemoveSuggestedExceptFirst.remove_from: remove_suggestion[1:]
RemoveSuggestedExceptFirst(remove_suggestion) ==
    IF Len(remove_suggestion) >= 1 THEN SubSeq(remove_suggestion, 2, Len(remove_suggestion)) ELSE <<>>

\* RemoveStrategy.remove_from, dispatched on the strategy object
remove_from(strategy, remove_suggestion) ==
    CASE strategy = "RemoveAllSuggested" -> RemoveAllSuggested(remove_suggestion)
      [] strategy = "RemoveFirstSuggested" -> RemoveFirstSuggested(remove_suggestion)
      [] strategy = "RemoveSuggestedExceptFirst" -> RemoveSuggestedExceptFirst(remove_suggestion)

\* ------------------------------------------------------------ list wrappers
\* A BaseListWrapper object: its class, its __part_of_person_model and the field its
\* __creation_callback closes over.  __part_of_person_model is python's None
\* (PartNone) or a reference to the list stored in the wrapper's working document
\* under a key; the reference is that key, since ModelWrapper never rebinds a key
\* that is present.
PartNone == "None"

ListWrapper(cls, part, creation_callback) ==
    [cls |-> cls, part |-> part, creation_callback |-> creation_callback]

\* No object held in a slot.
NoWrapper == ListWrapper("None", PartNone, "None")

\* The mixins of each list wrapper class.
TypeListMixin == {"AddressesWrapper", "EmailAddressesWrapper", "EventsWrapper", "PhoneNumbersWrapper"}

StringValueListMixin == {"EmailAddressesWrapper", "PhoneNumbersWrapper"}

DateValueListMixin == {"BirthdaysWrapper", "EventsWrapper"}

\* all() without the "if self.__part_of_person_model" test: a wrapper over no
\* list yields its None part as one item.
all_unguarded(m, w) == IF w.part = PartNone THEN <<None>> ELSE m[w.part]

\* The list a wrapper's __part_of_person_model refers to in document m, or <<>> for
\* None: what "for entry in self.__part_of_person_model" walks in all().
all(m, w) == IF w.part = PartNone THEN <<>> ELSE m[w.part]

\* BaseListWrapper.first: the first entry or None
first(m, w) == IF Len(all(m, w)) = 0 THEN None ELSE Head(all(m, w))

\* The values of a python generator: [f(x) for x in lst]
RECURSIVE Yield(_, _)
Yield(f(_), lst) == IF lst = <<>> THEN <<>> ELSE <<f(Head(lst))>> \o Yield(f, Tail(lst))

\* StringValueListMixin.all_values and DateValueListMixin.all_values
all_values(m, w) ==
    IF w.cls \in StringValueListMixin THEN Yield(value, all(m, w)) ELSE Yield(date_value, all(m, w))

\* TypeListMixin.all_of_type: an item whose tag is empty passes for no vtype.
all_of_type(m, w, t) == SelectSeq(all(m, w), LAMBDA item : vtype(item) # "" /\ vtype(item) = t)

\* TypeListMixin.first_of_type
first_of_type(m, w, t) == IF all_of_type(m, w, t) = <<>> THEN None ELSE Head(all_of_type(m, w, t))

\* The sub-fields NameWrapper and NamesWrapper have a setter for.
NameFields ==
    {"unstructuredName", "familyName", "givenName", "middleName", "honorificPrefix", "honorificSuffix"}

\* The sub-fields NameWrapper and NamesWrapper have a getter for.
NameGetters == NameFields \cup {"displayName", "displayNameLastFirst"}

\* The getters of the item wrapper class of each list wrapper class.
ItemGetters(cls) ==
    IF cls = "NamesWrapper" THEN NameGetters
    ELSE (IF cls \in TypeListMixin THEN {FIELD_TYPE} ELSE {})
            \cup (IF cls \in StringValueListMixin THEN {FIELD_VALUE} ELSE {})
            \cup (IF cls \in DateValueListMixin THEN {FIELD_DATE} ELSE {})

\* A getter of an item wrapper applied to the entry it wraps.
item_get(getter, item) ==
    IF getter = FIELD_DATE THEN date_value(item) ELSE Get(item, getter, "")

\* A pass-through getter of NamesWrapper: the sub-field of first(), None without it.
names_get(m, w, key) == IF first(m, w) = None THEN None ELSE Get(first(m, w), key, "")

\* "not self.__part_of_person_model": None or an empty list
PartIsFalsy(m, w) == w.part = PartNone \/ Len(m[w.part]) = 0

\* The callback assigning the creation value whether or not the key is present.
callback_overwriting(m, field) == Put(m, field, <<>>)

\* The callback made by ModelWrapper._creation_callback, invoked: it creates the key
\* with the creation value [] when the key is missing.
callback(m, field) == IF field \notin DOMAIN m THEN Put(m, field, <<>>) ELSE m

\* _append_to_model appending to what the callback returns without keeping it in
\* __part_of_person_model.
append_to_model_unkept(m, w, new_item) ==
    LET created == IF PartIsFalsy(m, w) THEN callback(m, w.creation_callback) ELSE m
        part == IF PartIsFalsy(m, w) THEN w.creation_callback ELSE w.part
    IN  [model |-> [created EXCEPT ![part] = Append(@, new_item)],
         wrapper |-> w,
         raised |-> "ok"]

\* _append_to_model of a wrapper without a list storing a list of its own under
\* the key, whatever the key holds.
append_to_model_replacing(m, w, new_item) ==
    IF PartIsFalsy(m, w)
    THEN [model |-> Put(m, w.creation_callback, <<new_item>>),
          wrapper |-> [w EXCEPT !.part = w.creation_callback],
          raised |-> "ok"]
    ELSE [model |-> [m EXCEPT ![w.part] = Append(@, new_item)], wrapper |-> w, raised |-> "ok"]

\* BaseListWrapper._append_to_model: the document and the wrapper afterwards.
append_to_model(m, w, new_item) ==
    LET created == IF PartIsFalsy(m, w) THEN callback(m, w.creation_callback) ELSE m
        part == IF PartIsFalsy(m, w) THEN w.creation_callback ELSE w.part
    IN  [model |-> [created EXCEPT ![part] = Append(@, new_item)],
         wrapper |-> [w EXCEPT !.part = part],
         raised |-> "ok"]

\* NamesWrapper._append_to_model: refuses when first() finds an item.
names_append_to_model(m, w, new_item) ==
    IF first(m, w) # None
    THEN [model |-> m, wrapper |-> w, raised |-> "ValueError"]
    ELSE append_to_model(m, w, new_item)

\* A pass-through setter that appends a new item whether or not first() finds one.
names_setter_appending(m, w, key, v) == names_append_to_model(m, w, [k \in {key} |-> v])

\* A pass-through setter of NamesWrapper for the sub-field key: it writes the
\* sub-field of the item first() finds, and without one appends a new item that
\* holds the sub-field.
names_setter(m, w, key, v) ==
    IF first(m, w) # None
    THEN [model |-> [m EXCEPT ![w.part][1] = Put(@, key, v)], wrapper |-> w, raised |-> "ok"]
    ELSE names_append_to_model(m, w, [k \in {key} |-> v])

\* Insert index i into a list of indices sorted in descending order.
RECURSIVE InsertReverse(_, _)
InsertReverse(sorted, i) ==
    IF sorted = <<>> THEN <<i>>
    ELSE IF i >= Head(sorted) THEN <<i>> \o sorted
    ELSE <<Head(sorted)>> \o InsertReverse(Tail(sorted), i)

\* sorted(to_remove): ascending, the reverse=True forgotten.
RECURSIVE SortedForward(_)
SortedForward(to_remove) ==
    IF to_remove = <<>> THEN <<>>
    ELSE LET rest == SortedForward(Tail(to_remove))
             smaller == SelectSeq(rest, LAMBDA i : i < Head(to_remove))
             others == SelectSeq(rest, LAMBDA i : i >= Head(to_remove))
         IN  smaller \o <<Head(to_remove)>> \o others

\* sorted(to_remove, reverse=True)
RECURSIVE SortedReverse(_)
SortedReverse(to_remove) ==
    IF to_remove = <<>> THEN <<>>
    ELSE InsertReverse(SortedReverse(Tail(to_remove)), Head(to_remove))

\* The loop of _remove_by_index over the sorted indices: it deletes one position
\* after the other and stops, keeping the deletions made so far, at an index
\* that is not smaller than the current length.
RECURSIVE RemoveLoop(_, _)
RemoveLoop(lst, to_remove_sorted) ==
    IF to_remove_sorted = <<>> THEN [lst |-> lst, raised |-> "ok"]
    ELSE IF Head(to_remove_sorted) >= Len(lst) THEN [lst |-> lst, raised |-> "IndexError"]
    ELSE RemoveLoop(DelNth(lst, Head(to_remove_sorted)), Tail(to_remove_sorted))

\* _remove_by_index taking the length of its list before the loop: with
\* __part_of_person_model None it fails on len(None) for an empty index list too.
remove_by_index_measuring(m, w, to_remove) ==
    IF w.part = PartNone THEN [model |-> m, raised |-> "TypeError"]
    ELSE IF to_remove = <<>> THEN [model |-> m, raised |-> "ok"]
    ELSE [model |-> [m EXCEPT ![w.part] = RemoveLoop(m[w.part], SortedReverse(to_remove)).lst],
          raised |-> RemoveLoop(m[w.part], SortedReverse(to_remove)).raised]

\* BaseListWrapper._remove_by_index: the document afterwards.  With
\* __part_of_person_model None the loop body fails on len(None).
remove_by_index(m, w, to_remove) ==
    IF to_remove = <<>> THEN [model |-> m, raised |-> "ok"]
    ELSE IF w.part = PartNone THEN [model |-> m, raised |-> "TypeError"]
    ELSE LET done == RemoveLoop(m[w.part], SortedReverse(to_remove))
         IN  [model |-> [m EXCEPT ![w.part] = done.lst], raised |-> done.raised]

\* The zero-based positions 0 .. n-1 in order
Positions(n) == [i \in 1..n |-> i - 1]

\* [index for index, item in enumerate(self.all()) if criterion.suggest_removal(item)]
remove_suggestion(m, w, criterion) ==
    SelectSeq(Positions(Len(all(m, w))), LAMBDA index: suggest_removal(criterion, Nth(all(m, w), index)))

\* set(seq)
Range(seq) == {seq[i] : i \in DOMAIN seq}

\* BaseListWrapper._remove from the answer of the strategy on: the check that the
\* answer is a subset of the suggestion, then _remove_by_index.
remove_selected(m, w, suggestion, to_remove) ==
    IF ~(Range(to_remove) \subseteq Range(suggestion))
    THEN [model |-> m, raised |-> "IndexError"]
    ELSE remove_by_index(m, w, to_remove)

\* BaseListWrapper._remove: the document afterwards.
remove(m, w, criterion, strategy) ==
    remove_selected(m, w, remove_suggestion(m, w, criterion),
                    remove_from(strategy, remove_suggestion(m, w, criterion)))

\* ------------------------------------------------------------ ModelWrapper
VARIABLES
    document,         \* the dict handed to ModelWrapper.__init__
    model,            \* ModelWrapper.__model, the working copy
    original_model,   \* ModelWrapper.__original_model, the pristine copy
    field_mask,       \* ModelWrapper.__field_mask
    list_wrappers,    \* the list wrapper objects the caller holds, by slot
    arguments,        \* the two objects the caller passed to __init__ and still holds
    last,             \* the last call made on the wrapper and how it ended
    returned          \* what the last call gave back, None if nothing or a wrapper

vars == <<document, model, original_model, field_mask, list_wrappers, arguments, last, returned>>

\* The slots in which the caller keeps list wrappers it obtained from the facade.
WrapperIds == {"w1", "w2"}

\* The mask check done against the keys of the document instead of the mask.
NotInMaskNorInDocument(field) == field \notin field_mask /\ field \notin DOMAIN model

\* "field not in self.__field_mask" of _model_field and _creation_callback
NotInMask(field) == field \notin field_mask

\* ModelWrapper._model_field, for a field in the mask: the reference to the value
\* under the key, None when the key is missing.
model_field(field) == IF field \in DOMAIN model THEN field ELSE PartNone

\* has_changes comparing the keys of the two documents only.
has_changes_by_keys == DOMAIN model # DOMAIN original_model

\* has_changes comparing the identity of the two documents ("is not"), which are
\* two objects from construction on.
has_changes_by_identity == TRUE

\* ModelWrapper.has_changes
has_changes == model # original_model

\* ModelWrapper.resource_name
resource_name == model[FIELD_RESOURCE_NAME]

\* ModelWrapper.model_copy: a deep copy of the working document
model_copy == model

\* ModelWrapper.field_mask: a new list of the members of the mask
field_mask_list == field_mask

\* ------------------------------------------------------------ PersonWrapper
\* The names property with its _creation_callback argument pasted from addresses.
PersonPropertyPasted(field) ==
    CASE field = "addresses" -> [cls |-> "AddressesWrapper", read |-> "addresses", create |-> "addresses"]
      [] field = "birthdays" -> [cls |-> "BirthdaysWrapper", read |-> "birthdays", create |-> "birthdays"]
      [] field = "emailAddresses" ->
            [cls |-> "EmailAddressesWrapper", read |-> "emailAddresses", create |-> "emailAddresses"]
      [] field = "events" -> [cls |-> "EventsWrapper", read |-> "events", create |-> "events"]
      [] field = "names" -> [cls |-> "NamesWrapper", read |-> "names", create |-> "addresses"]
      [] field = "phoneNumbers" ->
            [cls |-> "PhoneNumbersWrapper", read |-> "phoneNumbers", create |-> "phoneNumbers"]

\* The six list properties of PersonWrapper: the wrapper class each one builds, the
\* field it reads with _model_field and the field it hands to _creation_callback.
PersonProperty(field) ==
    CASE field = "addresses" -> [cls |-> "AddressesWrapper", read |-> "addresses", create |-> "addresses"]
      [] field = "birthdays" -> [cls |-> "BirthdaysWrapper", read |-> "birthdays", create |-> "birthdays"]
      [] field = "emailAddresses" ->
            [cls |-> "EmailAddressesWrapper", read |-> "emailAddresses", create |-> "emailAddresses"]
      [] field = "events" -> [cls |-> "EventsWrapper", read |-> "events", create |-> "events"]
      [] field = "names" -> [cls |-> "NamesWrapper", read |-> "names", create |-> "names"]
      [] field = "phoneNumbers" ->
            [cls |-> "PhoneNumbersWrapper", read |-> "phoneNumbers", create |-> "phoneNumbers"]

\* logging_name reading the names of the document without asking the mask.
logging_name_unmasked ==
    LET names == ListWrapper("NamesWrapper", model_field("names"), "names")
        single_name == first(model, names)
    IN  IF single_name # None /\ display_name(single_name) # ""
        THEN display_name(single_name)
        ELSE resource_name

\* PersonWrapper.logging_name
logging_name ==
    LET names == ListWrapper("NamesWrapper", model_field("names"), "names")
        single_name == first(model, names)
    IN  IF "names" \in field_mask /\ single_name # None /\ display_name(single_name) # ""
        THEN display_name(single_name)
        ELSE resource_name

\* ------------------------------------------------------------------ inputs
Types == {"home", "work"}

Values == {"a@example.org", "b@example.org"}

Dates == {from_full_date(1935, 6, 16), from_full_date(1935, 7, 16)}

Cities == {"Hamburg"}

\* The dicts the append methods build.
AddressItem(t, city) == [city |-> city, type |-> t]

BirthdayItem(dv) == [date |-> google_value(dv)]

EmailAddressItem(t, v) == [type |-> t, value |-> v]

EventItem(t, dv) == [type |-> t, date |-> google_value(dv)]

PhoneNumberItem(t, v) == [value |-> v, type |-> t]

NameItems == {[displayName |-> "Eva Tester"], [givenName |-> "Klaus"]}

NameValues == {"Klaus", "Eva"}

\* The documents and masks a PersonWrapper is constructed from.
Fixtures ==
    { [document |-> [resourceName |-> "people/1"],
       field_mask |-> {"emailAddresses"}],
      [document |-> [resourceName |-> "people/2",
                     emailAddresses |-> <<EmailAddressItem("home", "a@example.org")>>,
                     phoneNumbers |-> <<PhoneNumberItem("home", "a@example.org"),
                                        PhoneNumberItem("work", "a@example.org"),
                                        PhoneNumberItem("home", "b@example.org")>>,
                     names |-> <<[displayName |-> "Eva Tester", givenName |-> "Eva"]>>],
       field_mask |-> {"phoneNumbers"}],
      [document |-> [resourceName |-> "people/3",
                     birthdays |-> <<BirthdayItem(from_full_date(1935, 6, 16)),
                                     BirthdayItem(from_full_date(1935, 7, 16)),
                                     BirthdayItem(from_full_date(1935, 6, 16))>>],
       field_mask |-> {"birthdays"}],
      [document |-> [resourceName |-> "people/4"],
       field_mask |-> {"names"}],
      [document |-> [resourceName |-> "people/5", addresses |-> <<>>],
       field_mask |-> {"addresses", "names"}],
      [document |-> [resourceName |-> "people/6"],
       field_mask |-> {"events"}] }

\* The list property of PersonWrapper that builds wrappers of class cls.
FieldOf(cls) == CHOOSE field \in PersonField : PersonProperty(field).cls = cls

\* The record of a call: the operation, the attribute family it went to, the
\* exception it raised or "ok", what it did to the working document ("none",
\* "changed", or "created" when it added a key), and for a removal the strategy
\* and the number of positions the criterion suggested.
Last(op, field, raised, before, after, strategy, suggested) ==
    [op |-> op, field |-> field, raised |-> raised,
     effect |-> IF DOMAIN after # DOMAIN before THEN "created"
                ELSE IF after # before THEN "changed" ELSE "none",
     strategy |-> strategy, suggested |-> suggested]

\* ModelWrapper.__init__: both copies are deep copies of the document.
PersonWrapper(model_argument, field_mask_argument) ==
    /\ document = model_argument
    /\ model = model_argument
    /\ original_model = model_argument
    /\ field_mask = field_mask_argument
    /\ arguments = [model |-> model_argument, field_mask |-> field_mask_argument]
    /\ list_wrappers = [id \in WrapperIds |-> NoWrapper]
    /\ last = Last("__init__", "", "ok", model, model, "", 0)
    /\ returned = None

Init == \E fixture \in Fixtures : PersonWrapper(fixture.document, fixture.field_mask)

\* What no operation of the wrapper assigns.
Constructed == UNCHANGED <<document, original_model, field_mask, arguments>>

\* How a call that only reads ends: it gives back result.
Returned(op, field, result) ==
    /\ last' = Last(op, field, "ok", model, model, "", 0)
    /\ returned' = result
    /\ UNCHANGED <<model, list_wrappers>>
    /\ Constructed

\* _creation_callback invoking the callback it makes.
creation_callback_invoked(m, field) == callback(m, field)

\* ModelWrapper._creation_callback, for a field in the mask: the document after the
\* callback was made.  Making the callback does not invoke it.
creation_callback(m, field) == m

\* A PersonWrapper list property: _model_field, then _creation_callback, each of
\* which raises for a field outside the mask; then the list wrapper is built.
Property(id, field) ==
    LET property == PersonProperty(field) IN
    /\ IF NotInMask(property.read) \/ NotInMask(property.create)
       THEN /\ last' = Last("property", field, "FieldNotInMaskError", model, model, "", 0)
            /\ UNCHANGED <<model, list_wrappers>>
       ELSE /\ model' = creation_callback(model, property.create)
            /\ last' = Last("property", field, "ok", model, model', "", 0)
            /\ list_wrappers' = [list_wrappers EXCEPT ![id] =
                    ListWrapper(property.cls, model_field(property.read), property.create)]
    /\ returned' = None
    /\ Constructed

\* The length of the list stored under the key a wrapper appends to (0 if missing).
StoredLen(w) == Len(Get(model, w.creation_callback, <<>>))

\* An append through the list wrapper in slot id, by the class's _append_to_model.
AppendItem(id, new_item) ==
    LET w == list_wrappers[id]
        done == IF w.cls = "NamesWrapper"
                THEN names_append_to_model(model, w, new_item)
                ELSE append_to_model(model, w, new_item)
    IN  /\ w # NoWrapper
        /\ StoredLen(w) < MaxLen
        /\ model' = done.model
        /\ list_wrappers' = [list_wrappers EXCEPT ![id] = done.wrapper]
        /\ last' = Last("append", FieldOf(w.cls), done.raised, model, model', "", 0)
        /\ returned' = None
        /\ Constructed

append_address(id) ==
    /\ list_wrappers[id].cls = "AddressesWrapper"
    /\ \E t \in Types, city \in Cities : AppendItem(id, AddressItem(t, city))

append_birthday(id) ==
    /\ list_wrappers[id].cls = "BirthdaysWrapper"
    /\ \E dv \in Dates : AppendItem(id, BirthdayItem(dv))

append_email_address(id) ==
    /\ list_wrappers[id].cls = "EmailAddressesWrapper"
    /\ \E t \in Types, v \in Values : AppendItem(id, EmailAddressItem(t, v))

append_event(id) ==
    /\ list_wrappers[id].cls = "EventsWrapper"
    /\ \E t \in Types, dv \in Dates : AppendItem(id, EventItem(t, dv))

append_phone_number(id) ==
    /\ list_wrappers[id].cls = "PhoneNumbersWrapper"
    /\ \E t \in Types, v \in Values : AppendItem(id, PhoneNumberItem(t, v))

names_append(id) ==
    /\ list_wrappers[id].cls = "NamesWrapper"
    /\ \E new_item \in NameItems : AppendItem(id, new_item)

\* A write through the pass-through setter for key of the NamesWrapper in slot id.
NamesSet(id, key, v) ==
    LET w == list_wrappers[id]
        done == names_setter(model, w, key, v)
        single_name == first(model, w)
    IN  /\ w.cls = "NamesWrapper"
        /\ IF single_name = None
           THEN StoredLen(w) < MaxLen
           ELSE key \in DOMAIN single_name \/ Cardinality(DOMAIN single_name) < MaxNameKeys
        /\ model' = done.model
        /\ list_wrappers' = [list_wrappers EXCEPT ![id] = done.wrapper]
        /\ last' = Last("write", "names", done.raised, model, model', "", 0)
        /\ returned' = None
        /\ Constructed

set_unstructured_name(id) == \E v \in NameValues : NamesSet(id, "unstructuredName", v)

set_family_name(id) == \E v \in NameValues : NamesSet(id, "familyName", v)

set_given_name(id) == \E v \in NameValues : NamesSet(id, "givenName", v)

set_middle_name(id) == \E v \in NameValues : NamesSet(id, "middleName", v)

set_honorific_prefix(id) == \E v \in NameValues : NamesSet(id, "honorificPrefix", v)

set_honorific_suffix(id) == \E v \in NameValues : NamesSet(id, "honorificSuffix", v)

\* A removal through the list wrapper in slot id: a call of _remove.
RemoveItems(id, op, criterion, strategy) ==
    LET w == list_wrappers[id]
        done == remove(model, w, criterion, strategy)
    IN  /\ w # NoWrapper
        /\ model' = done.model
        /\ last' = Last(op, FieldOf(w.cls), done.raised, model, model', strategy,
                        Len(remove_suggestion(model, w, criterion)))
        /\ UNCHANGED list_wrappers
        /\ returned' = None
        /\ Constructed

remove_all(id) == RemoveItems(id, "remove_all", RemoveAllCriterion, "RemoveAllSuggested")

\* _remove called with the match-all criterion and any of the three strategies.
remove_matching_all(id) ==
    \E strategy \in RemoveStrategies : RemoveItems(id, "_remove", RemoveAllCriterion, strategy)

remove_by_string_value(id) ==
    /\ list_wrappers[id].cls \in StringValueListMixin
    /\ \E v \in Values, strategy \in RemoveStrategies :
          RemoveItems(id, "remove_by_value", RemoveByStringValueCriterion(v), strategy)

remove_by_date_value(id) ==
    /\ list_wrappers[id].cls \in DateValueListMixin
    /\ \E dv \in Dates, strategy \in RemoveStrategies :
          RemoveItems(id, "remove_by_value", RemoveByDateValueCriterion(dv), strategy)

remove_by_type(id) ==
    /\ list_wrappers[id].cls \in TypeListMixin
    /\ \E t \in Types, strategy \in RemoveStrategies :
          RemoveItems(id, "remove_by_type", RemoveByTypeCriterion(t), strategy)

\* A write through an item wrapper that holds a copy of its entry: the entry of the
\* working document stays as it was.
WriteItem_to_copy(id, index, key, v) ==
    /\ last' = Last("write", FieldOf(list_wrappers[id].cls), "ok", model, model, "", 0)
    /\ UNCHANGED <<model, list_wrappers>>
    /\ returned' = None
    /\ Constructed

\* A write of one sub-field through the item wrapper of the entry at position
\* index of the list the wrapper in slot id walks: self._model_part[key] = v.
WriteItem(id, index, key, v) ==
    LET w == list_wrappers[id] IN
    /\ model' = [model EXCEPT ![w.part][index + 1] = Put(@, key, v)]
    /\ last' = Last("write", FieldOf(w.cls), "ok", model, model', "", 0)
    /\ UNCHANGED list_wrappers
    /\ returned' = None
    /\ Constructed

\* The positions of the item wrappers all() yields for the wrapper in slot id
ItemPositions(id) == Range(Positions(Len(all(model, list_wrappers[id]))))

set_value(id) ==
    /\ list_wrappers[id].cls \in StringValueListMixin
    /\ \E index \in ItemPositions(id), v \in Values : WriteItem(id, index, FIELD_VALUE, v)

set_vtype(id) ==
    /\ list_wrappers[id].cls \in TypeListMixin
    /\ \E index \in ItemPositions(id), t \in Types : WriteItem(id, index, FIELD_TYPE, t)

set_date_value(id) ==
    /\ list_wrappers[id].cls \in DateValueListMixin
    /\ \E index \in ItemPositions(id), dv \in Dates : WriteItem(id, index, FIELD_DATE, google_value(dv))

\* The calls that only read: none of them assigns to the document.
ListReads == {"all", "first"}

read_list(id) ==
    LET w == list_wrappers[id] IN
    /\ w # NoWrapper
    /\ \E op \in ListReads :
          Returned(op, FieldOf(w.cls), IF op = "all" THEN all(model, w) ELSE first(model, w))

read_all_values(id) ==
    /\ list_wrappers[id].cls \in StringValueListMixin \cup DateValueListMixin
    /\ Returned("all_values", FieldOf(list_wrappers[id].cls), all_values(model, list_wrappers[id]))

TypeReads == {"first_of_type", "all_of_type"}

read_of_type(id) ==
    LET w == list_wrappers[id] IN
    /\ w.cls \in TypeListMixin
    /\ \E op \in TypeReads, t \in Types :
          Returned(op, FieldOf(w.cls),
                   IF op = "all_of_type" THEN all_of_type(model, w, t) ELSE first_of_type(model, w, t))

\* A read of one sub-field through the item wrapper of the entry at a position of
\* the list the wrapper in slot id walks.
read_item(id) ==
    LET w == list_wrappers[id] IN
    /\ w # NoWrapper
    /\ \E index \in ItemPositions(id), getter \in ItemGetters(w.cls) :
          Returned("item", FieldOf(w.cls), item_get(getter, Nth(all(model, w), index)))

\* A read through one of the pass-through properties of NamesWrapper.
read_names(id) ==
    /\ list_wrappers[id].cls = "NamesWrapper"
    /\ \E key \in NameGetters : Returned("names", "names", names_get(model, list_wrappers[id], key))

WrapperReads == {"logging_name", "model_copy", "field_mask", "resource_name"}

read_wrapper ==
    \E op \in WrapperReads :
        Returned(op, "",
                 CASE op = "logging_name" -> logging_name
                   [] op = "model_copy" -> model_copy
                   [] op = "field_mask" -> field_mask_list
                   [] op = "resource_name" -> resource_name)

Next ==
    \/ \E id \in WrapperIds, field \in PersonField : Property(id, field)
    \/ \E id \in WrapperIds : append_address(id)
    \/ \E id \in WrapperIds : append_birthday(id)
    \/ \E id \in WrapperIds : append_email_address(id)
    \/ \E id \in WrapperIds : append_event(id)
    \/ \E id \in WrapperIds : append_phone_number(id)
    \/ \E id \in WrapperIds : names_append(id)
    \/ \E id \in WrapperIds : remove_all(id)
    \/ \E id \in WrapperIds : remove_matching_all(id)
    \/ \E id \in WrapperIds : remove_by_string_value(id)
    \/ \E id \in WrapperIds : remove_by_date_value(id)
    \/ \E id \in WrapperIds : remove_by_type(id)
    \/ \E id \in WrapperIds : set_value(id)
    \/ \E id \in WrapperIds : set_vtype(id)
    \/ \E id \in WrapperIds : set_date_value(id)
    \/ \E id \in WrapperIds : read_list(id)
    \/ \E id \in WrapperIds : read_all_values(id)
    \/ \E id \in WrapperIds : read_of_type(id)
    \/ \E id \in WrapperIds : read_item(id)
    \/ \E id \in WrapperIds : read_names(id)
    \/ read_wrapper

Spec == Init /\ [][Next]_vars

\* ------------------------------------- index lists chosen by the caller
\* The indices a caller hands over: every position of the longest list and one
\* beyond it.
Indexes == 0 .. MaxLen + 1

\* Index lists of up to two entries, unsorted and repeated ones among them.
IndexLists == {<<>>} \cup {<<i>> : i \in Indexes} \cup {<<i, j>> : i, j \in Indexes}

\* _remove_by_index(to_remove) through the wrapper in slot id
RemoveByIndex(id, to_remove) ==
    LET w == list_wrappers[id] IN
    /\ w # NoWrapper
    /\ model' = remove_by_index(model, w, to_remove).model
    /\ last' = Last("_remove_by_index", FieldOf(w.cls),
                    remove_by_index(model, w, to_remove).raised, model, model', "", 0)
    /\ returned' = None
    /\ UNCHANGED list_wrappers
    /\ Constructed

\* _remove_by_index called with an index list of the caller's.
remove_by_index_call(id) == \E to_remove \in IndexLists : RemoveByIndex(id, to_remove)

\* _remove called with the match-all criterion and a RemoveStrategy subclass of the
\* caller's whose remove_from answers with an index list of its own.
remove_with_own_strategy(id) ==
    LET w == list_wrappers[id]
        suggestion == remove_suggestion(model, w, RemoveAllCriterion)
    IN  /\ w # NoWrapper
        /\ \E to_remove \in IndexLists :
              /\ model' = remove_selected(model, w, suggestion, to_remove).model
              /\ last' = Last("_remove", FieldOf(w.cls),
                              remove_selected(model, w, suggestion, to_remove).raised,
                              model, model', "RemoveStrategy", Len(suggestion))
        /\ returned' = None
        /\ UNCHANGED list_wrappers
        /\ Constructed

IndexNext ==
    \/ Next
    \/ \E id \in WrapperIds : remove_by_index_call(id)
    \/ \E id \in WrapperIds : remove_with_own_strategy(id)

IndexSpec == Init /\ [][IndexNext]_vars

\* ------------------------------------------- strategies written by the caller
\* _remove(criterion, strategy) through the wrapper in slot id, for a RemoveStrategy
\* subclass of the caller's whose remove_from answers to_remove.
RemoveWithOwnStrategy(id, op, criterion, to_remove) ==
    LET w == list_wrappers[id]
        suggestion == remove_suggestion(model, w, criterion)
    IN  /\ w # NoWrapper
        /\ model' = remove_selected(model, w, suggestion, to_remove).model
        /\ last' = Last(op, FieldOf(w.cls), remove_selected(model, w, suggestion, to_remove).raised,
                        model, model', "RemoveStrategy", Len(suggestion))
        /\ returned' = None
        /\ UNCHANGED list_wrappers
        /\ Constructed

\* remove_by_value(date_value, strategy) with a strategy of the caller's
remove_by_date_value_with_own_strategy(id) ==
    /\ list_wrappers[id].cls \in DateValueListMixin
    /\ \E dv \in Dates, to_remove \in IndexLists :
          RemoveWithOwnStrategy(id, "remove_by_value", RemoveByDateValueCriterion(dv), to_remove)

\* A person with three birthdays, two of them the same day.
StrategyFixtures ==
    { [document |-> [resourceName |-> "people/3",
                     birthdays |-> <<BirthdayItem(from_full_date(1935, 6, 16)),
                                     BirthdayItem(from_full_date(1935, 7, 16)),
                                     BirthdayItem(from_full_date(1935, 6, 16))>>],
       field_mask |-> {"birthdays"}] }

StrategyInit == \E fixture \in StrategyFixtures : PersonWrapper(fixture.document, fixture.field_mask)

\* Removals by value with the built-in strategies and with strategies of the
\* caller's.
StrategyNext ==
    \/ \E id \in WrapperIds : Property(id, "birthdays")
    \/ \E id \in WrapperIds : append_birthday(id)
    \/ \E id \in WrapperIds : remove_by_date_value(id)
    \/ \E id \in WrapperIds : remove_by_date_value_with_own_strategy(id)
    \/ \E id \in WrapperIds : read_all_values(id)

StrategySpec == StrategyInit /\ [][StrategyNext]_vars

\* ------------------------------------------------- the names attribute alone
\* Documents of a person whose mask is the names attribute: names missing, names
\* empty, one name.
NamesFixtures ==
    { [document |-> [resourceName |-> "people/4"], field_mask |-> {"names"}],
      [document |-> [resourceName |-> "people/7", names |-> <<>>], field_mask |-> {"names"}],
      [document |-> [resourceName |-> "people/8", names |-> <<[displayName |-> "Eva Tester"]>>],
       field_mask |-> {"names"}] }

NamesInit == \E fixture \in NamesFixtures : PersonWrapper(fixture.document, fixture.field_mask)

\* The operations of a NamesWrapper with its six pass-through setters.
NamesNext ==
    \/ \E id \in WrapperIds : Property(id, "names")
    \/ \E id \in WrapperIds : names_append(id)
    \/ \E id \in WrapperIds : set_unstructured_name(id)
    \/ \E id \in WrapperIds : set_family_name(id)
    \/ \E id \in WrapperIds : set_given_name(id)
    \/ \E id \in WrapperIds : set_middle_name(id)
    \/ \E id \in WrapperIds : set_honorific_prefix(id)
    \/ \E id \in WrapperIds : set_honorific_suffix(id)
    \/ \E id \in WrapperIds : remove_all(id)
    \/ \E id \in WrapperIds : read_list(id)
    \/ \E id \in WrapperIds : read_names(id)

NamesSpec == NamesInit /\ [][NamesNext]_vars

\* ------------------------------------------------- DateValue objects
\* The components a caller hands to the static constructors: the ends of each
\* range and the first value outside it on either side.
Years == {0, 1, 1935}

Months == {0, 2, 12, 13}

Days == {0, 1, 31, 32}

\* A person with one birthday, month and day only.
DateFixtures ==
    { [document |-> [resourceName |-> "people/10",
                     birthdays |-> <<BirthdayItem(from_month_day(6, 16))>>],
       field_mask |-> {"birthdays"}] }

DateInit == \E fixture \in DateFixtures : PersonWrapper(fixture.document, fixture.field_mask)

\* A call that makes a DateValue: it gives back the object, or raises and gives
\* back nothing.  The wrapper has no part in it.
Made(op, result) ==
    /\ last' = Last(op, "", IF IsDateValue(result) THEN "ok" ELSE result.raised, model, model, "", 0)
    /\ returned' = IF IsDateValue(result) THEN result ELSE None
    /\ UNCHANGED <<model, list_wrappers>>
    /\ Constructed

call_from_full_date(year, month, day) == Made("from_full_date", from_full_date(year, month, day))

call_from_year_month(year, month) == Made("from_year_month", from_year_month(year, month))

call_from_month_day(month, day) == Made("from_month_day", from_month_day(month, day))

call_from_year_only(year) == Made("from_year_only", from_year_only(year))

\* DateValue.from_google(x.google_value()) for the DateValue x the caller holds
call_from_google ==
    /\ IsDateValue(returned)
    /\ Made("from_google", from_google(google_value(returned)))

\* The wire forms a caller reads a DateValue from: every component absent (0) or
\* set.
WireDates == [year : {0, 1935}, month : {0, 2}, day : {0, 31}]

\* DateValue.from_google(google_date) for a wire form
call_from_google_of_wire == \E google_date \in WireDates : Made("from_google_of_wire", from_google(google_date))

\* x.visit_value(visitor) for the DateValue x the caller holds and a visitor that
\* records its calls: the caller is left with the calls recorded.
call_visit_value ==
    /\ IsDateValue(returned)
    /\ last' = Last("visit_value", "", visit_value(returned).raised, model, model, "", 0)
    /\ returned' = [calls |-> visit_value(returned).calls]
    /\ UNCHANGED <<model, list_wrappers>>
    /\ Constructed

\* What a caller compares a DateValue with: a DateValue of every presence pattern,
\* None, and an object of another class.
EqOperands == {from_google(google_date) : google_date \in WireDates} \cup {None, Call("visit_year_only", <<1935>>)}

\* x == other and other == x for the DateValue x the caller holds, and the hashes
\* of the DateValues among the two.  For an other that is no DateValue python
\* answers other == x with x.__eq__(other) as well.
call_eq ==
    /\ IsDateValue(returned)
    /\ \E other \in EqOperands :
          returned' = [self |-> returned,
                       other |-> other,
                       eq |-> DateEq(returned, other),
                       reflected |-> IF IsDateValue(other) THEN DateEq(other, returned)
                                     ELSE DateEq(returned, other),
                       hash_self |-> Some(DateHash(returned)),
                       hash_other |-> IF IsDateValue(other) THEN Some(DateHash(other)) ELSE NoInt]
    /\ last' = Last("__eq__", "", "ok", model, model, "", 0)
    /\ UNCHANGED <<model, list_wrappers>>
    /\ Constructed

\* item.date_value = x for the DateValue x the caller holds
assign_date_value(id) ==
    /\ IsDateValue(returned)
    /\ list_wrappers[id].cls \in DateValueListMixin
    /\ \E index \in ItemPositions(id) : WriteItem(id, index, FIELD_DATE, google_value(returned))

\* The slot of the one list wrapper this caller holds.
DateWrapperIds == {"w1"}

\* A caller that makes DateValue objects, sends them through the wire form, and
\* assigns them to and reads them from the birthdays of a person.
DateNext ==
    \/ \E id \in DateWrapperIds : Property(id, "birthdays")
    \/ \E year \in Years, month \in Months, day \in Days : call_from_full_date(year, month, day)
    \/ \E year \in Years, month \in Months : call_from_year_month(year, month)
    \/ \E month \in Months, day \in Days : call_from_month_day(month, day)
    \/ \E year \in Years : call_from_year_only(year)
    \/ call_from_google
    \/ call_from_google_of_wire
    \/ call_visit_value
    \/ call_eq
    \/ \E id \in DateWrapperIds : assign_date_value(id)
    \/ \E id \in DateWrapperIds : read_item(id)

DateSpec == DateInit /\ [][DateNext]_vars

\* ------------------------------------------------ the birthdays attribute alone
\* BirthdaysWrapper.replace_birthdays_with_single: remove_all, then append_birthday.
ReplaceBirthdays(id, dv) ==
    LET w == list_wrappers[id]
        removed == remove(model, w, RemoveAllCriterion, "RemoveAllSuggested")
        done == append_to_model(removed.model, w, BirthdayItem(dv))
    IN  /\ w.cls = "BirthdaysWrapper"
        /\ Len(Get(removed.model, w.creation_callback, <<>>)) < MaxLen
        /\ model' = done.model
        /\ list_wrappers' = [list_wrappers EXCEPT ![id] = done.wrapper]
        /\ last' = Last("replace_birthdays_with_single", "birthdays", done.raised, model, model', "", 0)
        /\ returned' = None
        /\ Constructed

replace_birthdays_with_single(id) == \E dv \in Dates : ReplaceBirthdays(id, dv)

\* Persons whose mask is the birthdays attribute: birthdays missing, empty, three
\* birthdays.
BirthdayFixtures ==
    { [document |-> [resourceName |-> "people/6"], field_mask |-> {"birthdays"}],
      [document |-> [resourceName |-> "people/11", birthdays |-> <<>>], field_mask |-> {"birthdays"}],
      [document |-> [resourceName |-> "people/3",
                     birthdays |-> <<BirthdayItem(from_full_date(1935, 6, 16)),
                                     BirthdayItem(from_full_date(1935, 7, 16)),
                                     BirthdayItem(from_full_date(1935, 6, 16))>>],
       field_mask |-> {"birthdays"}] }

BirthdayInit == \E fixture \in BirthdayFixtures : PersonWrapper(fixture.document, fixture.field_mask)

\* The operations of a BirthdaysWrapper with replace_birthdays_with_single.
BirthdayNext ==
    \/ \E id \in WrapperIds : Property(id, "birthdays")
    \/ \E id \in WrapperIds : append_birthday(id)
    \/ \E id \in WrapperIds : replace_birthdays_with_single(id)
    \/ \E id \in WrapperIds : remove_all(id)
    \/ \E id \in WrapperIds : read_all_values(id)

BirthdaySpec == BirthdayInit /\ [][BirthdayNext]_vars

\* ------------------------------------------------------ items without a type
\* The tags a caller asks for: the types, and the empty string an item without a
\* type key reads as.
Tags == Types \cup {""}

\* all_of_type(t) or first_of_type(t) through the wrapper in slot id
ReadOfType(id, op, t) ==
    LET w == list_wrappers[id] IN
    /\ w.cls \in TypeListMixin
    /\ Returned(op, FieldOf(w.cls),
                IF op = "all_of_type" THEN all_of_type(model, w, t) ELSE first_of_type(model, w, t))

read_of_tag(id) == \E op \in TypeReads, t \in Tags : ReadOfType(id, op, t)

remove_by_tag(id) ==
    /\ list_wrappers[id].cls \in TypeListMixin
    /\ \E t \in Tags, strategy \in RemoveStrategies :
          RemoveItems(id, "remove_by_type", RemoveByTypeCriterion(t), strategy)

\* Persons with e-mail addresses of which one has no type key and one an empty
\* type.
TypeFixtures ==
    { [document |-> [resourceName |-> "people/12",
                     emailAddresses |-> <<[value |-> "a@example.org"],
                                          EmailAddressItem("home", "a@example.org"),
                                          EmailAddressItem("", "b@example.org")>>],
       field_mask |-> {"emailAddresses"}],
      [document |-> [resourceName |-> "people/2",
                     emailAddresses |-> <<EmailAddressItem("home", "a@example.org")>>],
       field_mask |-> {"emailAddresses"}] }

TypeInit == \E fixture \in TypeFixtures : PersonWrapper(fixture.document, fixture.field_mask)

\* The operations of a list wrapper with typed items, asked for any tag.
TypeNext ==
    \/ \E id \in WrapperIds : Property(id, "emailAddresses")
    \/ \E id \in WrapperIds : append_email_address(id)
    \/ \E id \in WrapperIds : read_of_tag(id)
    \/ \E id \in WrapperIds : remove_by_tag(id)
    \/ \E id \in WrapperIds : set_vtype(id)
    \/ \E id \in WrapperIds : read_list(id)

TypeSpec == TypeInit /\ [][TypeNext]_vars

\* ------------------------------------ objects the caller shares with the wrapper
\* ModelWrapper.__init__ keeping the caller's document as its working document
\* ("self.__model = model").
init_kept_model == {"model", "field_mask"}

\* ModelWrapper.__init__: the members that are the very object the caller passed.
\* __model and __original_model are deep copies of the document; __field_mask is
\* the caller's collection itself.
init_kept == {"field_mask"}

\* model_copy and field_mask: the members that are the very object the call gave
\* back.  model_copy gives back a deep copy and field_mask a new list.
returned_kept(op) == {}

\* The keys a caller adds to or deletes from a dict it holds.
CallerKeys == {"emailAddresses"}

\* The fields a caller appends to or removes from a mask collection it holds.
CallerFields == {"addresses"}

\* d[key] = [] for a missing key, del d[key] for a present one
toggle_key(d, key) ==
    IF key \in DOMAIN d THEN [k \in DOMAIN d \ {key} |-> d[k]] ELSE Put(d, key, <<>>)

\* mask.append(field) for a missing field, mask.remove(field) for a present one
toggle_field(mask, field) == IF field \in mask THEN mask \ {field} ELSE mask \cup {field}

\* The caller changes an object it holds; every member of the wrapper that is this
\* very object changes with it.
caller_mutates(object, kept, new_model, new_field_mask) ==
    /\ model' = IF "model" \in kept THEN new_model ELSE model
    /\ original_model' = IF "original_model" \in kept THEN new_model ELSE original_model
    /\ field_mask' = IF "field_mask" \in kept THEN new_field_mask ELSE field_mask
    /\ last' = Last("caller", object, "ok", model, model', "", 0)
    /\ UNCHANGED <<document, list_wrappers>>

\* The caller changes the document it passed to __init__.
mutate_model_argument ==
    \E key \in CallerKeys :
        /\ arguments' = [arguments EXCEPT !.model = toggle_key(@, key)]
        /\ caller_mutates("model", init_kept, arguments'.model, field_mask)
        /\ UNCHANGED returned

\* The caller changes the mask collection it passed to __init__.
mutate_field_mask_argument ==
    \E field \in CallerFields :
        /\ arguments' = [arguments EXCEPT !.field_mask = toggle_field(@, field)]
        /\ caller_mutates("field_mask", init_kept, model, arguments'.field_mask)
        /\ UNCHANGED returned

\* The caller changes the dict model_copy() has just given back.
mutate_model_copy ==
    \E key \in CallerKeys :
        /\ last.op = "model_copy"
        /\ returned' = toggle_key(returned, key)
        /\ caller_mutates("model_copy", returned_kept("model_copy"), returned', field_mask)
        /\ UNCHANGED arguments

\* The caller changes the list field_mask has just given back.
mutate_field_mask_list ==
    \E field \in CallerFields :
        /\ last.op = "field_mask"
        /\ returned' = toggle_field(returned, field)
        /\ caller_mutates("field_mask_list", returned_kept("field_mask"), model, returned')
        /\ UNCHANGED arguments

\* Persons with a mask of one field: no list yet, one e-mail address.
CallerFixtures ==
    { [document |-> [resourceName |-> "people/1"], field_mask |-> {"emailAddresses"}],
      [document |-> [resourceName |-> "people/9",
                     emailAddresses |-> <<EmailAddressItem("home", "a@example.org")>>],
       field_mask |-> {"emailAddresses"}] }

CallerInit == \E fixture \in CallerFixtures : PersonWrapper(fixture.document, fixture.field_mask)

\* The slot of the one list wrapper this caller holds.
CallerWrapperIds == {"w1"}

\* A caller that uses the wrapper and also changes the objects it passed in and
\* the objects it got back.
CallerNext ==
    \/ \E id \in CallerWrapperIds, field \in {"addresses", "emailAddresses"} : Property(id, field)
    \/ \E id \in CallerWrapperIds : append_address(id)
    \/ \E id \in CallerWrapperIds : append_email_address(id)
    \/ \E id \in CallerWrapperIds : remove_all(id)
    \/ \E id \in CallerWrapperIds : read_list(id)
    \/ read_wrapper
    \/ mutate_model_argument
    \/ mutate_field_mask_argument
    \/ mutate_model_copy
    \/ mutate_field_mask_list

CallerSpec == CallerInit /\ [][CallerNext]_vars

\* ------------------------------------------------------------------ claims
ReadOps ==
    {"property", "all", "first", "all_values", "first_of_type", "all_of_type", "item", "names",
     "logging_name", "model_copy", "field_mask", "resource_name"}

MutatingOps == {"append", "remove_all", "_remove", "remove_by_value", "remove_by_type", "write"}

\* C1: a list property of the facade for a field outside the mask raises
\* FieldNotInMaskError, whether or not the document holds the key, hands out no list
\* wrapper (so nothing can be read, appended or removed through it) and leaves the
\* working document and has_changes() as they were.
C1_OutOfMaskAccessFails ==
    /\ [](\A id \in WrapperIds :
            list_wrappers[id] # NoWrapper =>
                /\ FieldOf(list_wrappers[id].cls) \in field_mask
                /\ list_wrappers[id].creation_callback \in field_mask)
    /\ [][(last'.op = "property" /\ last'.field \notin field_mask) =>
            /\ last'.raised = "FieldNotInMaskError"
            /\ model' = model
            /\ list_wrappers' = list_wrappers
            /\ has_changes' = has_changes]_vars

\* C1 witness: the property of a field outside the mask whose key the document
\* holds was accessed and raised.
C1_Witness ==
    /\ last.op = "property"
    /\ last.field \notin field_mask
    /\ last.field \in DOMAIN model
    /\ last.raised = "FieldNotInMaskError"

\* C2: every top-level key outside the mask holds its value from construction in
\* every reachable state, no key outside the mask is ever added, and a call on one
\* attribute family leaves every other top-level key of the working document as
\* it was.
C2_OtherKeysPreserved ==
    /\ [](\A k \in (DOMAIN document \cup DOMAIN model) \ field_mask :
            /\ k \in DOMAIN document
            /\ k \in DOMAIN model
            /\ model[k] = document[k])
    /\ [][\A k \in DOMAIN model \cup DOMAIN model' :
            k # last'.field =>
                /\ k \in DOMAIN model
                /\ k \in DOMAIN model'
                /\ model'[k] = model[k]]_vars

\* C2 witness: a call changed one family of a document that holds list attributes
\* outside the mask.
C2_Witness ==
    /\ last.op \in MutatingOps
    /\ last.raised = "ok"
    /\ last.effect = "changed"
    /\ \E k \in DOMAIN model \ field_mask : k # FIELD_RESOURCE_NAME

\* C3: has_changes() is false after construction, and no read-only call (a list
\* property, all, first, all_values, first_of_type, all_of_type, an item read, a
\* names pass-through read, logging_name, model_copy, field_mask, resource_name)
\* changes the working document or the value of has_changes().
C3_ReadsAreNoChange ==
    /\ ~has_changes
    /\ [][last'.op \in ReadOps => (model' = model /\ has_changes' = has_changes)]_vars

\* C3 witness: a read through a list wrapper of an attribute that is missing from
\* the document, which is still unchanged.
C3_Witness ==
    /\ last.op \in {"all", "first"}
    /\ last.field \notin DOMAIN model
    /\ ~has_changes

C5_ChangesIffDifferent ==
    /\ original_model = document
    /\ has_changes <=> (model # document)

\* C5 witness: a call modified the working document and has_changes() is false,
\* which takes an earlier modification that this one undid.
C5_Witness ==
    /\ last.op \in MutatingOps
    /\ last.raised = "ok"
    /\ last.effect = "changed"
    /\ ~has_changes

\* The items the append methods are called with.
AppendedItems ==
    {AddressItem(t, city) : t \in Types, city \in Cities}
        \cup {BirthdayItem(dv) : dv \in Dates}
        \cup {EmailAddressItem(t, v) : t \in Types, v \in Values}
        \cup {EventItem(t, dv) : t \in Types, dv \in Dates}
        \cup {PhoneNumberItem(t, v) : t \in Types, v \in Values}
        \cup NameItems

\* C6: an append to a list attribute that is in the mask and missing from the
\* document succeeds, creates the key, and the attribute then holds exactly the
\* appended item: in the document, through the wrapper that appended and through a
\* wrapper obtained afterwards.
C6_AppendToAbsentCreates ==
    [][last'.op = "append" =>
       \A id \in WrapperIds, new_item \in AppendedItems :
        LET key == FieldOf(list_wrappers[id].cls) IN
        (AppendItem(id, new_item) /\ key \notin DOMAIN model) =>
            /\ last'.raised = "ok"
            /\ key \in DOMAIN model'
            /\ model'[key] = <<new_item>>
            /\ all(model', list_wrappers'[id]) = <<new_item>>
            /\ all(model', ListWrapper(list_wrappers[id].cls, key, key)) = <<new_item>>]_vars

\* C6 witness: an append created the key and the list holds one item.
C6_Witness ==
    /\ last.op = "append"
    /\ last.raised = "ok"
    /\ last.effect = "created"
    /\ last.field \notin DOMAIN document
    /\ Len(model[last.field]) = 1

\* C7: an append that reaches BaseListWrapper._append_to_model for a list attribute
\* whose key the document holds, with an empty or a non-empty list, leaves the list
\* it held followed by the new item: one item more, the prior items unchanged and
\* in their order.
C7_AppendToExistingExtends ==
    [][(last'.op = "append" /\ last'.raised = "ok") =>
       \A id \in WrapperIds, new_item \in AppendedItems :
        LET key == FieldOf(list_wrappers[id].cls) IN
        (AppendItem(id, new_item) /\ key \in DOMAIN model) =>
            /\ model'[key] = Append(model[key], new_item)
            /\ Len(model'[key]) = Len(model[key]) + 1
            /\ all(model', list_wrappers'[id]) = model'[key]]_vars

\* C7 witness: an append to a list that held at least one item.
C7_Witness ==
    /\ last.op = "append"
    /\ last.raised = "ok"
    /\ last.effect = "changed"
    /\ Len(model[last.field]) >= 2

\* The criteria the removal methods are called with.
Criteria ==
    {RemoveAllCriterion}
        \cup {RemoveByStringValueCriterion(v) : v \in Values}
        \cup {RemoveByTypeCriterion(t) : t \in Types}
        \cup {RemoveByDateValueCriterion(dv) : dv \in Dates}

RemoveOps == {"remove_all", "_remove", "remove_by_value", "remove_by_type"}

\* The zero-based positions of lst whose item the criterion matches.
MatchingPositions(lst, criterion) ==
    {i \in 0..(Len(lst) - 1) : suggest_removal(criterion, Nth(lst, i))}

\* The smallest member of a non-empty set of positions.
Smallest(S) == CHOOSE i \in S : \A j \in S : i <= j

\* The items of lst at the positions in keep, in their order in lst.
ItemsAt(lst, keep) ==
    LET kept == SelectSeq(Positions(Len(lst)), LAMBDA i : i \in keep)
    IN  [j \in 1..Len(kept) |-> Nth(lst, kept[j])]

BirthdaysWithDuplicate ==
    <<BirthdayItem(from_full_date(1935, 6, 16)),
      BirthdayItem(from_full_date(1935, 7, 16)),
      BirthdayItem(from_full_date(1935, 6, 16))>>

\* The step that is remove_by_value(1935-06-16, strategy) through a wrapper that
\* walks the birthdays [1935-06-16, 1935-07-16, 1935-06-16].
RemoveDuplicateBirthday(id, strategy) ==
    /\ list_wrappers[id].part = "birthdays"
    /\ model["birthdays"] = BirthdaysWithDuplicate
    /\ RemoveItems(id, "remove_by_value",
                   RemoveByDateValueCriterion(from_full_date(1935, 6, 16)), strategy)

\* C11 as claimed: on the birthdays [1935-06-16, 1935-07-16, 1935-06-16],
\* remove_by_value of 1935-06-16 leaves [1935-07-16, 1935-06-16] with the
\* remove-first and with the remove-all-except-first strategy, and [1935-07-16]
\* with the remove-all strategy.
C11_FirstAndExceptFirstCoincide ==
    [][(last'.op = "remove_by_value" /\ last'.field = "birthdays") =>
       \A id \in WrapperIds, strategy \in RemoveStrategies :
        RemoveDuplicateBirthday(id, strategy) =>
            /\ last'.raised = "ok"
            /\ model'["birthdays"] =
                    IF strategy = "RemoveAllSuggested"
                    THEN <<BirthdayItem(from_full_date(1935, 7, 16))>>
                    ELSE <<BirthdayItem(from_full_date(1935, 7, 16)),
                           BirthdayItem(from_full_date(1935, 6, 16))>>]_vars

\* C11 amended: on the birthdays [1935-06-16, 1935-07-16, 1935-06-16],
\* remove_by_value of 1935-06-16 leaves [1935-07-16, 1935-06-16] with the
\* remove-first strategy, [1935-06-16, 1935-07-16] with the remove-all-except-first
\* strategy (the match kept is the first one, so the two results have the same
\* items in a different order), and [1935-07-16] with the remove-all strategy.
C11_RemoveDuplicateBirthday ==
    [][(last'.op = "remove_by_value" /\ last'.field = "birthdays") =>
       \A id \in WrapperIds, strategy \in RemoveStrategies :
        RemoveDuplicateBirthday(id, strategy) =>
            /\ last'.raised = "ok"
            /\ model'["birthdays"] =
                    CASE strategy = "RemoveAllSuggested" ->
                            <<BirthdayItem(from_full_date(1935, 7, 16))>>
                      [] strategy = "RemoveFirstSuggested" ->
                            <<BirthdayItem(from_full_date(1935, 7, 16)),
                              BirthdayItem(from_full_date(1935, 6, 16))>>
                      [] strategy = "RemoveSuggestedExceptFirst" ->
                            <<BirthdayItem(from_full_date(1935, 6, 16)),
                              BirthdayItem(from_full_date(1935, 7, 16))>>]_vars

\* C11 witness: remove_by_value with the remove-all-except-first strategy found the
\* two matches among the three birthdays and kept the first of them.
C11_Witness ==
    /\ last.op = "remove_by_value"
    /\ last.field = "birthdays"
    /\ last.strategy = "RemoveSuggestedExceptFirst"
    /\ last.suggested = 2
    /\ last.raised = "ok"
    /\ document["birthdays"] = BirthdaysWithDuplicate
    /\ model["birthdays"] = <<BirthdayItem(from_full_date(1935, 6, 16)),
                              BirthdayItem(from_full_date(1935, 7, 16))>>

\* C12: an append on names is refused with ValueError whenever the names list of
\* the working document already holds an element, also through a NamesWrapper
\* obtained before that element existed; hence names never holds more than one
\* element (no document a wrapper is constructed from holds more than one).
C12_SingleName ==
    /\ [](Len(Get(model, "names", <<>>)) <= 1)
    /\ [][(last'.op = "append" /\ last'.field = "names" /\ Len(Get(model, "names", <<>>)) >= 1) =>
            (last'.raised = "ValueError" /\ model' = model)]_vars

\* The names list of a document, empty when the key is missing.
Names(m) == Get(m, "names", <<>>)

C14_NoPartialApplication ==
    [][last'.raised # "ok" => model' = model]_vars

\* The reads of a list wrapper that give back items or values.
EmptyReads == {"all", "first", "all_values", "first_of_type", "all_of_type"}

\* C15: a read of an attribute family that is in the mask and missing from the
\* working document, or present and empty, does not fail: all(), all_values() and
\* all_of_type() give back nothing, first() and first_of_type() give back None, and
\* the working document is unchanged.
C15_ReadOfAbsentIsEmpty ==
    [][(last'.op \in EmptyReads /\ Len(Get(model, last'.field, <<>>)) = 0) =>
            /\ last'.raised = "ok"
            /\ model' = model
            /\ returned' = IF last'.op \in {"first", "first_of_type"} THEN None ELSE <<>>]_vars

\* C15 witness: all_values() was read for a family that is in the mask and missing
\* from the working document, and gave back nothing.
C15_Witness ==
    /\ last.op = "all_values"
    /\ last.field \in field_mask
    /\ last.field \notin DOMAIN model
    /\ last.raised = "ok"
    /\ returned = <<>>

\* C16: the pristine baseline equals the document supplied at construction in
\* every reachable state, and when the caller changes the document it passed to
\* the constructor or a dict model_copy() gave back, the working document, the
\* pristine baseline and the result of has_changes() stay as they were.
C16_PristineBaseline ==
    /\ [](original_model = document)
    /\ [][(last'.op = "caller" /\ last'.field \in {"model", "model_copy"}) =>
            /\ model' = model
            /\ original_model' = original_model
            /\ has_changes' = has_changes]_vars

\* C16 witness: the wrapper has changes, the caller has changed the document it
\* passed in so that it differs from both copies, and has just changed a dict
\* model_copy() gave back so that it differs from the working document.
C16_Witness ==
    /\ last.op = "caller"
    /\ last.field = "model_copy"
    /\ returned # model
    /\ arguments.model \notin {document, model}
    /\ has_changes
    /\ original_model = document

\* The attributes that pass the mask check.
Accessible == {field \in PersonField : ~NotInMask(field)}

\* C17: the attributes that pass the mask check never change after construction,
\* whatever the caller does to the mask collection it passed in or to a list that
\* field_mask gave back.
C17_MaskFixedAtConstruction ==
    [][Accessible' = Accessible]_vars

\* What every view over the entry at position index of the list of the wrapper in
\* slot id shows after v was written to its sub-field key, where read is what the
\* getter of that sub-field makes of v: the item wrappers of all(), first() and
\* all_of_type() of every list wrapper over the same list, and model_copy().
WrittenThrough(id, index, key, read) ==
    LET part == list_wrappers[id].part IN
    /\ \A other \in WrapperIds :
          list_wrappers'[other].part = part =>
              LET w == list_wrappers'[other]
                  item == Nth(all(model', w), index)
              IN  /\ item_get(key, item) = read
                  /\ index = 0 => item_get(key, first(model', w)) = read
                  /\ (w.cls \in TypeListMixin /\ vtype(item) # "") =>
                        \E i \in DOMAIN all_of_type(model', w, vtype(item)) :
                            item_get(key, all_of_type(model', w, vtype(item))[i]) = read
    /\ item_get(key, model_copy'[part][index + 1]) = read

\* C18: after a sub-field write through one item view, every view over the same
\* entry, through all(), first() or all_of_type() of any list wrapper over the same
\* list, reads the written value, and model_copy() contains it.
C18_ItemViewsWriteThrough ==
    [][last'.op = "write" =>
        \A id \in WrapperIds : \A index \in ItemPositions(id) :
            /\ \A key \in ItemGetters(list_wrappers[id].cls) \ {FIELD_DATE}, v \in Values \cup Types :
                  WriteItem(id, index, key, v) => WrittenThrough(id, index, key, v)
            /\ \A dv \in Dates :
                  (/\ FIELD_DATE \in ItemGetters(list_wrappers[id].cls)
                   /\ WriteItem(id, index, FIELD_DATE, google_value(dv)))
                      => WrittenThrough(id, index, FIELD_DATE, dv)]_vars

\* C18 witness: a write through an item view changed an entry of a list of two
\* entries that both list wrappers of the caller walk.
C18_Witness ==
    /\ last.op = "write"
    /\ last.effect = "changed"
    /\ list_wrappers["w1"] # NoWrapper
    /\ list_wrappers["w1"].part # PartNone
    /\ list_wrappers["w2"] = list_wrappers["w1"]
    /\ Len(all(model, list_wrappers["w1"])) = 2

\* The DateValue objects the four static constructors make of the components
\* that are in range.
DateValues ==
    {dv \in {from_full_date(year, month, day) : year \in Years, month \in Months, day \in Days}
            \cup {from_year_month(year, month) : year \in Years, month \in Months}
            \cup {from_month_day(month, day) : month \in Months, day \in Days}
            \cup {from_year_only(year) : year \in Years} : IsDateValue(dv)}

\* An absent component of x is 0 in the wire form and absent in the object back.
AbsentIsZero(x, back) ==
    \A component \in {"year", "month", "day"} :
        x[component] = NoInt => google_value(x)[component] = 0 /\ back[component] = NoInt

\* C19: for every DateValue x that was constructed, from_google(x.google_value())
\* raises nothing and equals x, an absent component being 0 on the wire and absent
\* again in the result; and after item.date_value = x the date_value of the item
\* equals x.
C19_DateValueRoundTrip ==
    /\ [][last'.op = "from_google" =>
            /\ last'.raised = "ok"
            /\ DateEq(returned, returned')
            /\ DateEq(returned', returned)
            /\ AbsentIsZero(returned, returned')]_vars
    /\ [][last'.op = "write" =>
            \A id \in WrapperIds : \A index \in ItemPositions(id), x \in DateValues :
                WriteItem(id, index, FIELD_DATE, google_value(x)) =>
                    /\ DateEq(x, item_get(FIELD_DATE, Nth(all(model', list_wrappers'[id]), index)))
                    /\ DateEq(item_get(FIELD_DATE, Nth(all(model', list_wrappers'[id]), index)), x)]_vars

\* C19 witness: a DateValue of month and day only came back from the wire form.
C19_Witness ==
    /\ last.op = "from_google"
    /\ last.raised = "ok"
    /\ returned = [year |-> NoInt, month |-> Some(12), day |-> Some(31)]

\* The ranges of the three components.
YearInRange(year) == year > 0

MonthInRange(month) == month \in 1 .. 12

DayInRange(day) == day \in 1 .. 31

\* What a constructor call that stored the optional components year, month and day
\* must have done: given back the object holding them if in_range, and otherwise
\* raised ValueError and given back nothing.
MadeIff(in_range, year, month, day) ==
    IF in_range
    THEN last'.raised = "ok" /\ returned' = [year |-> year, month |-> month, day |-> day]
    ELSE last'.raised = "ValueError" /\ returned' = None

\* C20: each of the four static constructors gives back a DateValue if and only if
\* every component it was handed is in range (year > 0, month in 1..12, day in
\* 1..31, the day not being checked against the month); otherwise it raises
\* ValueError and no object is made.
C20_ConstructionIffInRange ==
    [][last'.op \in {"from_full_date", "from_year_month", "from_month_day", "from_year_only"} =>
        /\ \A year \in Years, month \in Months, day \in Days :
              call_from_full_date(year, month, day) =>
                  MadeIff(YearInRange(year) /\ MonthInRange(month) /\ DayInRange(day),
                          Some(year), Some(month), Some(day))
        /\ \A year \in Years, month \in Months :
              call_from_year_month(year, month) =>
                  MadeIff(YearInRange(year) /\ MonthInRange(month), Some(year), Some(month), NoInt)
        /\ \A month \in Months, day \in Days :
              call_from_month_day(month, day) =>
                  MadeIff(MonthInRange(month) /\ DayInRange(day), NoInt, Some(month), Some(day))
        /\ \A year \in Years :
              call_from_year_only(year) => MadeIff(YearInRange(year), Some(year), NoInt, NoInt)]_vars

\* C20 witness: from_full_date made the 31st of February.
C20_Witness ==
    /\ last.op = "from_full_date"
    /\ last.raised = "ok"
    /\ returned = [year |-> Some(1), month |-> Some(2), day |-> Some(31)]

\* The one call visit_value owes the visitor for a DateValue of one of the four
\* patterns, with the components of the value.
MatchingCall(x) ==
    IF x.year # NoInt /\ x.month # NoInt /\ x.day # NoInt
    THEN Call("visit_full_date", <<x.year[1], x.month[1], x.day[1]>>)
    ELSE IF x.year # NoInt /\ x.month # NoInt /\ x.day = NoInt
    THEN Call("visit_without_day", <<x.year[1], x.month[1]>>)
    ELSE IF x.year = NoInt /\ x.month # NoInt /\ x.day # NoInt
    THEN Call("visit_without_year", <<x.month[1], x.day[1]>>)
    ELSE Call("visit_year_only", <<x.year[1]>>)

\* Is x of one of the four patterns?
HasPattern(x) ==
    \/ x.year # NoInt /\ x.month # NoInt
    \/ x.year = NoInt /\ x.month # NoInt /\ x.day # NoInt
    \/ x.year # NoInt /\ x.month = NoInt /\ x.day = NoInt

\* C21: for every DateValue with a component set, made by a constructor or read
\* from the wire form, visit_value raises nothing and calls exactly one of the four
\* visitor methods, the one of its pattern with its own components; for a DateValue
\* with no component set it calls none.
C21_VisitCallsOneCallback ==
    [][last'.op = "visit_value" =>
        /\ last'.raised = "ok"
        /\ IF returned.year = NoInt /\ returned.month = NoInt /\ returned.day = NoInt
           THEN returned'.calls = <<>>
           ELSE /\ Len(returned'.calls) = 1
                /\ HasPattern(returned) => returned'.calls = <<MatchingCall(returned)>>]_vars

\* A component is absent in both values or present with the same value in both.
SameComponent(x, other, component) ==
    \/ x[component] = NoInt /\ other[component] = NoInt
    \/ /\ x[component] # NoInt
       /\ other[component] # NoInt
       /\ x[component][1] = other[component][1]

\* C22: a DateValue equals another object if and only if that object is a DateValue
\* and each of year, month and day is absent in both or present with the same
\* value in both; so it equals neither None nor an object of another class; the
\* comparison gives the same answer both ways round; and equal DateValues have
\* equal hashes.
C22_DateEquality ==
    last.op = "__eq__" =>
        /\ returned.eq <=>
              (/\ returned.other # None
               /\ IsDateValue(returned.other)
               /\ \A component \in {"year", "month", "day"} :
                      SameComponent(returned.self, returned.other, component))
        /\ returned.reflected = returned.eq
        /\ returned.eq => returned.hash_self = returned.hash_other

\* C22 witness: two DateValues of month and day only compared equal.
C22_Witness ==
    /\ last.op = "__eq__"
    /\ returned.eq
    /\ returned.self = [year |-> NoInt, month |-> Some(2), day |-> Some(31)]

\* C23: replace_birthdays_with_single(d) leaves the birthdays attribute holding
\* exactly one item, whose date value equals d, whatever the attribute held before.
C23_ReplaceLeavesSingle ==
    [][last'.op = "replace_birthdays_with_single" =>
        \A id \in WrapperIds, dv \in Dates :
            ReplaceBirthdays(id, dv) =>
                /\ Len(Get(model', "birthdays", <<>>)) = 1
                /\ DateEq(dv, date_value(model'.birthdays[1]))]_vars

\* The items of the list of wrapper w whose type equals tag, in list order.
ItemsOfType(m, w, tag) == SelectSeq(all(m, w), LAMBDA item : vtype(item) = tag)

\* C24: for every tag, the empty string included, all_of_type(tag) gives the items
\* whose type equals tag in list order and first_of_type(tag) the first of them or
\* None, and they are the items remove_by_type(tag) with the remove-all strategy
\* removes.
C24_OfTypeIsTagEquality ==
    [][last'.op \in TypeReads =>
        \A id \in WrapperIds, t \in Tags :
            LET w == list_wrappers[id]
                removed == remove(model, w, RemoveByTypeCriterion(t), "RemoveAllSuggested").model
            IN  /\ ReadOfType(id, "all_of_type", t) =>
                      /\ returned' = ItemsOfType(model, w, t)
                      /\ Len(all(removed, w)) = Len(all(model, w)) - Len(returned')
                /\ ReadOfType(id, "first_of_type", t) =>
                      returned' = IF ItemsOfType(model, w, t) = <<>> THEN None
                                  ELSE Head(ItemsOfType(model, w, t))]_vars

\* C25: logging_name never fails, whatever the mask; it gives back the display
\* name when names is in the mask and the sole name has a non-empty display name,
\* and the resource name when names is outside the mask, there is no name, or the
\* sole name has no display name.  It leaves the working document as it was.
C25_LoggingName ==
    [][last'.op = "logging_name" =>
        LET names == Get(model, "names", <<>>)
            shown == IF Len(names) = 0 THEN "" ELSE Get(names[1], "displayName", "")
        IN  /\ last'.raised = "ok"
            /\ model' = model
            /\ ("names" \in field_mask /\ Len(names) = 1 /\ shown # "") => returned' = shown
            /\ ("names" \notin field_mask \/ Len(names) = 0 \/ (Len(names) = 1 /\ shown = ""))
                  => returned' = model[FIELD_RESOURCE_NAME]]_vars

\* C25 witness: logging_name gave back the display name of a person whose mask
\* holds names.
C25_Witness ==
    /\ last.op = "logging_name"
    /\ "names" \in field_mask
    /\ Len(Get(model, "names", <<>>)) = 1
    /\ returned = "Eva Tester"

\* C26: _remove_by_index(indices) through a wrapper that walks a list: when every
\* index is smaller than the length of the list, the call succeeds and deletes
\* exactly the items at the given positions of the list as it was, the others
\* keeping their order; when an index is not smaller than the length, it raises
\* IndexError.
C26_RemoveByIndex ==
    [][last'.op = "_remove_by_index" =>
        \A id \in WrapperIds, to_remove \in IndexLists :
            (list_wrappers[id].part # PartNone /\ RemoveByIndex(id, to_remove)) =>
                LET lst == all(model, list_wrappers[id]) IN
                IF \A i \in Range(to_remove) : i < Len(lst)
                THEN /\ last'.raised = "ok"
                     /\ all(model', list_wrappers[id])
                            = ItemsAt(lst, (0 .. Len(lst) - 1) \ Range(to_remove))
                ELSE last'.raised = "IndexError"]_vars

\* The items of the list of wrapper w the criterion does not suggest, in order.
NotSuggested(m, w, criterion) ==
    SelectSeq(all(m, w), LAMBDA item : ~suggest_removal(criterion, item))

\* C27: for every criterion and every strategy, built-in or the caller's, _remove
\* deletes only items at positions the criterion suggested: when the strategy
\* answers a position outside the suggestion the call raises IndexError and the
\* document stays as it was, and otherwise every item the criterion did not
\* suggest is still in the list.
C27_RemoveOnlySuggested ==
    [][last'.op = "remove_by_value" =>
        \A id \in WrapperIds, dv \in Dates :
            LET w == list_wrappers[id]
                criterion == RemoveByDateValueCriterion(dv)
                suggestion == remove_suggestion(model, w, criterion)
                kept == NotSuggested(model', w, criterion) = NotSuggested(model, w, criterion)
            IN  /\ \A strategy \in RemoveStrategies :
                      RemoveItems(id, "remove_by_value", criterion, strategy) => kept
                /\ \A to_remove \in IndexLists :
                      RemoveWithOwnStrategy(id, "remove_by_value", criterion, to_remove) =>
                          IF Range(to_remove) \subseteq Range(suggestion)
                          THEN kept
                          ELSE last'.raised = "IndexError" /\ model' = model]_vars

\* C28: the creation callback never overwrites a list the document holds.  When a
\* wrapper obtained while the key was missing appends after the list was created
\* through another wrapper, the list keeps its items and the new item follows them
\* (after p1.append(a), p2.append(b) leaves [a, b]), and from then on the wrapper
\* walks and appends to that list of the document.
C28_CallbackKeepsSequence ==
    [][(last'.op = "append" /\ last'.raised = "ok") =>
       \A id \in WrapperIds, new_item \in AppendedItems :
        LET w == list_wrappers[id]
            key == w.creation_callback
        IN  (AppendItem(id, new_item) /\ w.part = PartNone /\ key \in DOMAIN model) =>
                /\ model'[key] = model[key] \o <<new_item>>
                /\ list_wrappers'[id].part = key
                /\ all(model', list_wrappers'[id]) = model'[key]
                /\ \A other \in WrapperIds :
                      list_wrappers[other].part = key =>
                          all(model', list_wrappers'[other]) = model'[key]]_vars

\* C28 witness: two wrappers over a list the constructor's document did not hold
\* have both appended: the list holds two items and both wrappers walk it.
C28_Witness ==
    /\ last.op = "append"
    /\ last.raised = "ok"
    /\ last.effect = "changed"
    /\ last.field \notin DOMAIN document
    /\ Len(model[last.field]) = 2
    /\ list_wrappers["w1"].part = last.field
    /\ list_wrappers["w2"].part = last.field

\* C29: list wrappers hold no state of their own: in every state, every list
\* wrapper the caller holds walks the list the working document holds under the
\* key of its attribute (nothing when the key is missing), so any two wrappers over
\* the same attribute walk the same items, a wrapper obtained while the key was
\* missing included.
C29_WrappersWalkTheDocument ==
    \A id \in WrapperIds :
        list_wrappers[id] # NoWrapper =>
            all(model, list_wrappers[id]) = Get(model, FieldOf(list_wrappers[id].cls), <<>>)

\* The criteria a removal method builds for the wrapper class it is called on.
CriteriaOf(op, cls) ==
    IF op = "remove_by_type" THEN {RemoveByTypeCriterion(t) : t \in Types}
    ELSE IF op = "remove_by_value" /\ cls \in StringValueListMixin
    THEN {RemoveByStringValueCriterion(v) : v \in Values}
    ELSE IF op = "remove_by_value" THEN {RemoveByDateValueCriterion(dv) : dv \in Dates}
    ELSE {RemoveAllCriterion}

\* C30: a removal that selects nothing is a no-op that never fails: remove_all,
\* remove_by_value and remove_by_type with any built-in strategy, on an attribute
\* that is missing from the working document, empty, or holds no item the
\* criterion matches, raise nothing, delete nothing, do not create the key, and
\* leave has_changes() as it was.
C30_EmptyRemovalIsNoOp ==
    [][(last'.op \in RemoveOps /\ last'.strategy \in RemoveStrategies) =>
        \A id \in WrapperIds :
            (list_wrappers[id] # NoWrapper /\ FieldOf(list_wrappers[id].cls) = last'.field) =>
                \A criterion \in CriteriaOf(last'.op, list_wrappers[id].cls) :
                    (/\ MatchingPositions(Get(model, last'.field, <<>>), criterion) = {}
                     /\ RemoveItems(id, last'.op, criterion, last'.strategy)) =>
                        /\ last'.raised = "ok"
                        /\ model' = model
                        /\ DOMAIN model' = DOMAIN model
                        /\ has_changes' = has_changes]_vars

\* C30 witness: remove_all ran on an attribute that is in the mask and missing
\* from the working document of a person that has changes.
C30_Witness ==
    /\ last.op = "remove_all"
    /\ last.raised = "ok"
    /\ last.field \in field_mask
    /\ last.field \notin DOMAIN model
    /\ has_changes

====
